---- MODULE Spec2Model ----
(***************************************************************************)
(* A model of example.py: FeedForward, RotaryEmbedding,                    *)
(* ParallelTransformerBlock (with its mask / rotary caches), Transformer   *)
(* and ALRBlock.                                                           *)
(*                                                                         *)
(* Tensors are modelled by their shape (a tuple of naturals) and, where a  *)
(* claim is about entries (the causal mask, the rotary table), by their    *)
(* data.  An operation that raises is modelled by a result whose err field *)
(* names the exception.  Real-valued arguments (mult, dropout) are counted *)
(* in tenths: 1 is 0.1, 40 is 4.0.                                         *)
(***************************************************************************)
EXTENDS Integers, Sequences, FiniteSets, TLC

VARIABLES
    ff,        \* <<>> or <<the FeedForward object>> built by the last constructor call
    ffArgs,    \* the positional arguments (a, b, c) of that call
    ffOut,     \* <<>> or <<result of the last FeedForward.forward>>
    alr,       \* <<>> or <<the ALRBlock object>>
    alrIn,     \* shape of the last input given to ALRBlock.forward
    alrOut,    \* <<>> or <<result of the last ALRBlock.forward>>
    tr,        \* <<>> or <<outcome of the last Transformer(...) call>>
    trOut,     \* <<>> or <<[x, result] of the last Transformer.forward>>
    ptb,       \* <<>> or <<the ParallelTransformerBlock object>>
    dev,       \* the device the block's parameters, and so its inputs, are on
    mask,      \* buffer "mask": <<>> (None) or <<tensor>>
    pos_emb,   \* buffer "pos_emb": <<>> (None) or <<tensor>>
    ret        \* <<>> or <<the last call on the block and what it returned>>

vars == <<ff, ffArgs, ffOut, alr, alrIn, alrOut, tr, trOut, ptb, dev, mask, pos_emb, ret>>

ffVars == <<ff, ffArgs, ffOut>>
alrVars == <<alr, alrIn, alrOut>>
trVars == <<tr, trOut>>
ptbVars == <<ptb, dev, mask, pos_emb, ret>>

----------------------------------------------------------------------------
(* Bounds of the model. *)

MaxSeq == 3
MaxDimHead == 4
MaxDepth == 2

\* Feature widths tried; 512, 768 and 2048 are the widths of the source's examples.
Dims == {2, 4, 512, 768}
HiddenDims == {4, 8, 2048}
\* Dropout probabilities tried, in tenths: 0.0, 0.1, 0.5.
Dropouts == {0, 1, 5}
FfMults == {1, 4}
Devices == {"cpu", "cuda"}
Batches == {1, 2}
HeadCounts == {1, 2}

----------------------------------------------------------------------------
(* Shapes and results. *)

Ok(s) == [err |-> "", shape |-> s]

Raise(e) == [err |-> e, shape |-> <<>>]

Last(s) == s[Len(s)]

Front(s) == SubSeq(s, 1, Len(s) - 1)

Max(a, b) == IF a >= b THEN a ELSE b

RECURSIVE Sum(_)
Sum(s) == IF s = <<>> THEN 0 ELSE s[1] + Sum(Tail(s))

\* Left-pads a shape with 1s to rank r, as broadcasting aligns shapes on the right.
RECURSIVE PadLeft(_, _)
PadLeft(s, r) == IF Len(s) >= r THEN s ELSE PadLeft(<<1>> \o s, r)

\* The shape two tensors broadcast to in an elementwise operation, or the error
\* torch raises when a pair of sizes differs and neither is 1.
Broadcast(s, t) ==
    LET r == Max(Len(s), Len(t))
        a == PadLeft(s, r)
        b == PadLeft(t, r)
    IN  IF \A i \in 1..r : a[i] = b[i] \/ a[i] = 1 \/ b[i] = 1
        THEN Ok([i \in 1..r |-> IF a[i] = 1 THEN b[i] ELSE a[i]])
        ELSE Raise("RuntimeError")

\* nn.Linear(in, out) applied to a tensor of shape s.
Linear(in, out, s) ==
    IF Len(s) >= 1 /\ Last(s) = in THEN Ok(Front(s) \o <<out>>) ELSE Raise("RuntimeError")

\* nn.LayerNorm(d) applied to a tensor of shape s.
LayerNorm(d, s) ==
    IF Len(s) >= 1 /\ Last(s) = d THEN Ok(s) ELSE Raise("RuntimeError")

\* torch.cat of tensors of the shapes in ss along the last dimension.
CatLast(ss) ==
    IF \A i \in 1..Len(ss) : Len(ss[i]) = Len(ss[1]) /\ Front(ss[i]) = Front(ss[1])
    THEN Ok(Front(ss[1]) \o <<Sum([i \in 1..Len(ss) |-> Last(ss[i])])>>)
    ELSE Raise("RuntimeError")

----------------------------------------------------------------------------
(* FeedForward *)

DefaultMult == 40
DefaultDropout == 0

Layer(op, in, out, p) == [op |-> op, in |-> in, out |-> out, p |-> p]

\* FeedForward.__init__ with every parameter bound; dim_out = 0 stands for None.
\* The nested nn.Sequential project_in is written out in place.
FeedForwardInit(dim, dim_out, mult, glu, swish, relu_squared, post_act_ln, dropout) ==
    LET inner_dim == (dim * mult) \div 10
        dout == IF dim_out = 0 THEN dim ELSE dim_out
        activation == IF relu_squared THEN "ReluSquared"
                      ELSE IF swish THEN "SiLU" ELSE "GELU"
        project_in == IF glu THEN <<Layer("GLU", dim, inner_dim, 0)>>
                      ELSE <<Layer("Linear", dim, inner_dim, 0),
                             Layer(activation, 0, 0, 0)>>
        norm == IF post_act_ln THEN <<Layer("LayerNorm", inner_dim, inner_dim, 0)>>
                ELSE <<>>
    IN  [dim |-> dim, dim_out |-> dout, inner_dim |-> inner_dim,
         ff |-> project_in \o norm
                \o <<Layer("Dropout", 0, 0, dropout),
                     Layer("Linear", inner_dim, dout, 0)>>]

\* The call FeedForward(a, b, c): three positional arguments, bound in the order of
\* the signature (dim, dim_out, mult); everything else takes its default.
FeedForward(a, b, c) ==
    FeedForwardInit(a, b, c, FALSE, FALSE, FALSE, FALSE, DefaultDropout)

\* One layer of the nn.Sequential applied to a result; an error passes through.
ApplyLayer(l, r) ==
    IF r.err # "" THEN r
    ELSE IF l.op \in {"Linear", "GLU"} THEN Linear(l.in, l.out, r.shape)
    ELSE IF l.op = "LayerNorm" THEN LayerNorm(l.in, r.shape)
    ELSE r

RECURSIVE Sequential(_, _)
Sequential(layers, r) ==
    IF layers = <<>> THEN r ELSE Sequential(Tail(layers), ApplyLayer(layers[1], r))

\* FeedForward.forward
FeedForwardForward(self, s) == Sequential(self.ff, Ok(s))

\* The hidden Dropout layer's probability, read off the built network.
DropoutOf(self) == self.ff[CHOOSE i \in 1..Len(self.ff) : self.ff[i].op = "Dropout"].p

----------------------------------------------------------------------------
(* ALRBlock *)

ALRBlockInit(dim, hidden_dim, dropout) ==
    [dim |-> dim, hidden_dim |-> hidden_dim, dropout |-> dropout,
     ffn |-> FeedForward(dim, hidden_dim, dropout),
     ff |-> FeedForward(dim, hidden_dim, dropout)]

\* The next step F of a computation, applied to the shape the step before it
\* produced, unless that step raised.
Bind(r, F(_)) == IF r.err # "" THEN r ELSE F(r.shape)

\* ALRBlock.forward; to_q_proj, to_k_proj and to_v_proj are all nn.Linear(dim, dim).
ALRBlockForward(self, x) ==
    LET q == Linear(self.dim, self.dim, x)
        qkv == Bind(q, LAMBDA s : CatLast(<<s, s, s>>))
        ffn == Bind(qkv, LAMBDA s : FeedForwardForward(self.ffn, s))
        n1 == Bind(ffn, LAMBDA s : LayerNorm(self.dim, s))
        norm_ffn == Bind(n1, LAMBDA s : Broadcast(s, x))
        ffo == Bind(norm_ffn, LAMBDA s : FeedForwardForward(self.ff, s))
        ff_norm == Bind(ffo, LAMBDA s : LayerNorm(self.dim, s))
    IN  Bind(ff_norm, LAMBDA s : Broadcast(s, x))

----------------------------------------------------------------------------
(* RotaryEmbedding *)

\* A tensor with its entries: shape, device and data (a tuple of rows).
Tensor(shape, device, data) == [shape |-> shape, device |-> device, data |-> data]

\* inv_freq = 1.0 / (10000 ** (arange(0, dim, 2) / dim)).  Entry i is kept as its
\* exponent numerator e = arange(0, dim, 2)[i], and stands for 10000 ** (-e / dim).
InvFreq(dim) == [i \in 1..((dim + 1) \div 2) |-> 2 * (i - 1)]

\* The product p * 10000 ** (-e / dim) of a position and an inverse frequency,
\* kept as <<p, e>>; the product with position 0 is 0 whatever the frequency.
Times(p, e) == IF p = 0 THEN <<0, 0>> ELSE <<p, e>>

\* RotaryEmbedding.forward(max_seq_len, device=device)
RotaryEmbeddingForward(dim, max_seq_len, device) ==
    LET inv_freq == InvFreq(dim)
        seq == [i \in 1..max_seq_len |-> i - 1]
        freqs == [i \in 1..max_seq_len |->
                     [j \in 1..Len(inv_freq) |-> Times(seq[i], inv_freq[j])]]
    IN  Tensor(<<max_seq_len, 2 * Len(inv_freq)>>, device,
               [i \in 1..max_seq_len |-> freqs[i] \o freqs[i]])

----------------------------------------------------------------------------
(* ParallelTransformerBlock *)

\* A block whose fused projection gives keys and values one head per query head
\* (multi-head rather than multi-query widths).
ParallelTransformerBlockInitMultiHead(dim, dim_head, heads, ff_mult) ==
    LET attn_inner_dim == dim_head * heads
        ff_inner_dim == dim * ff_mult
    IN  [dim |-> dim, dim_head |-> dim_head, heads |-> heads, ff_mult |-> ff_mult,
         fused_dims |-> <<attn_inner_dim, attn_inner_dim, attn_inner_dim, ff_inner_dim>>,
         fused_out |-> Sum(<<attn_inner_dim, attn_inner_dim, attn_inner_dim, ff_inner_dim>>),
         attn_in |-> attn_inner_dim,
         ff_in |-> ff_inner_dim]

\* ParallelTransformerBlock.__init__, up to the (empty) cache buffers.
ParallelTransformerBlockInit(dim, dim_head, heads, ff_mult) ==
    LET attn_inner_dim == dim_head * heads
        ff_inner_dim == dim * ff_mult
    IN  [dim |-> dim, dim_head |-> dim_head, heads |-> heads, ff_mult |-> ff_mult,
         fused_dims |-> <<attn_inner_dim, dim_head, dim_head, ff_inner_dim>>,
         fused_out |-> Sum(<<attn_inner_dim, dim_head, dim_head, ff_inner_dim>>),
         attn_in |-> attn_inner_dim,
         ff_in |-> ff_inner_dim]

\* torch.ones((n, n), dtype=bool).triu(k): entry (i, j) is True iff j - i >= k.
Triu(n, k, device) ==
    Tensor(<<n, n>>, device, [i \in 1..n |-> [j \in 1..n |-> j - i >= k]])

Min(a, b) == IF a <= b THEN a ELSE b

\* t[:n] of a matrix t where t[:n, :n] was meant: the columns are not cut.
SliceSquareRowsOnly(t, n) ==
    LET r == Min(n, t.shape[1])
    IN  Tensor(<<r, t.shape[2]>>, t.device, SubSeq(t.data, 1, r))

\* t[:n, :n] of a matrix t
SliceSquare(t, n) ==
    LET r == Min(n, t.shape[1])
        c == Min(n, t.shape[2])
    IN  Tensor(<<r, c>>, t.device, [i \in 1..r |-> SubSeq(t.data[i], 1, c)])

\* t[:n] of a matrix t
SliceRows(t, n) ==
    LET r == Min(n, t.shape[1])
    IN  Tensor(<<r, t.shape[2]>>, t.device, SubSeq(t.data, 1, r))

\* get_mask: whether the cached mask is used
MaskHit(cache, n) == cache # <<>> /\ cache[1].shape[2] >= n

\* get_mask: [val |-> what it returns, buf |-> the buffer afterwards]
GetMask(cache, n, device) ==
    IF MaskHit(cache, n)
    THEN [val |-> SliceSquare(cache[1], n), buf |-> cache]
    ELSE [val |-> Triu(n, 1, device), buf |-> <<Triu(n, 1, device)>>]

\* A cache test that forgets to compare the cached length with n.
RotaryHitAnyLength(cache, n) == cache # <<>>

\* get_rotary_embedding: whether the cached table is used
RotaryHit(cache, n) == cache # <<>> /\ cache[1].shape[1] >= n

\* get_rotary_embedding: [val |-> what it returns, buf |-> the buffer afterwards]
GetRotaryEmbedding(self, cache, n, device) ==
    IF RotaryHit(cache, n)
    THEN [val |-> SliceRows(cache[1], n), buf |-> cache]
    ELSE [val |-> RotaryEmbeddingForward(self.dim_head, n, device),
          buf |-> <<RotaryEmbeddingForward(self.dim_head, n, device)>>]

\* tensor.split(sizes, dim=-1): the sizes must add up to the last dimension.
Split(s, sizes) ==
    IF Len(s) >= 1 /\ Sum(sizes) = Last(s) THEN Ok(s) ELSE Raise("RuntimeError")

\* Piece i of a split of a tensor of shape s into the given sizes.
Piece(s, sizes, i) == Front(s) \o <<sizes[i]>>

\* rearrange(q, "b n (h d) -> b h n d", h=h)
SplitHeads(s, h) ==
    IF Len(s) = 3 /\ h > 0 /\ s[3] % h = 0
    THEN Ok(<<s[1], h, s[2], s[3] \div h>>)
    ELSE Raise("EinopsError")

\* rearrange(out, "b h n d -> b n (h d)")
MergeHeads(s) ==
    IF Len(s) = 4 THEN Ok(<<s[1], s[3], s[2] * s[4]>>) ELSE Raise("EinopsError")

\* rotate_half: "... (j d) -> ... j d" with j = 2, unbind, cat((-x2, x1), dim=-1)
RotateHalf(s) ==
    IF Len(s) >= 1 /\ Last(s) % 2 = 0 THEN Ok(s) ELSE Raise("EinopsError")

\* apply_rotary_pos_emb(pos, t) = (t * pos.cos()) + (rotate_half(t) * pos.sin())
ApplyRotaryPosEmb(pos, t) ==
    LET a == Broadcast(t, pos)
        rh == Bind(a, LAMBDA s : RotateHalf(t))
        b == Bind(rh, LAMBDA s : Broadcast(s, pos))
    IN  Bind(b, LAMBDA s : Broadcast(a.shape, s))

\* Two sizes einsum lets share a letter: equal, or one of them 1.
SameDim(a, b) == a = b \/ a = 1 \/ b = 1

\* einsum("b h i d, b j d -> b h i j", q, k)
EinsumSim(q, k) ==
    IF Len(q) = 4 /\ Len(k) = 3 /\ SameDim(q[1], k[1]) /\ SameDim(q[4], k[3])
    THEN Ok(<<Max(q[1], k[1]), q[2], q[3], k[2]>>)
    ELSE Raise("RuntimeError")

\* einsum("b h i j, b j d -> b h i d", attn, v)
EinsumOut(attn, v) ==
    IF Len(attn) = 4 /\ Len(v) = 3 /\ SameDim(attn[1], v[1]) /\ SameDim(attn[4], v[2])
    THEN Ok(<<Max(attn[1], v[1]), attn[2], attn[3], v[3]>>)
    ELSE Raise("RuntimeError")

\* sim.masked_fill(m, value): the mask must broadcast to sim's shape.
MaskedFill(sim, m) ==
    IF Broadcast(sim, m) = Ok(sim) THEN Ok(sim) ELSE Raise("RuntimeError")

\* RMSNorm.forward: x / norm.clamp(min=eps) * g, norm of shape (..., 1), g of (dim,)
RMSNorm(dim, x) ==
    LET norm == Front(x) \o <<1>>
    IN  Bind(Broadcast(x, norm), LAMBDA s : Broadcast(s, <<dim>>))

\* ParallelTransformerBlock.forward on an input of shape x: every local of the
\* method, in the order the method computes them.  positions and causal_mask are
\* the shapes get_rotary_embedding(n) and get_mask(n) return.
ParallelTransformerBlockForward(self, x, positions, causal_mask) ==
    LET fd == self.fused_dims
        n == IF Len(x) >= 2 THEN Ok(x) ELSE Raise("IndexError")
        xn == Bind(n, LAMBDA s : RMSNorm(self.dim, s))
        fused == Bind(xn, LAMBDA s : Linear(self.dim, self.fused_out, s))
        split == Bind(fused, LAMBDA s : Split(s, fd))
        q1 == Bind(split, LAMBDA s : SplitHeads(Piece(s, fd, 1), self.heads))
        q2 == Bind(q1, LAMBDA s : ApplyRotaryPosEmb(positions, s))
        k2 == Bind(q2, LAMBDA s : ApplyRotaryPosEmb(positions, Piece(split.shape, fd, 2)))
        v == Piece(split.shape, fd, 3)
        ffi == Piece(split.shape, fd, 4)
        sim == Bind(k2, LAMBDA s : EinsumSim(q2.shape, s))
        filled == Bind(sim, LAMBDA s : MaskedFill(s, causal_mask))
        out == Bind(filled, LAMBDA s : EinsumOut(s, v))
        merged == Bind(out, LAMBDA s : MergeHeads(s))
        attn == Bind(merged, LAMBDA s : Linear(self.attn_in, self.dim, s))
        ffo == Bind(attn, LAMBDA s : Linear(self.ff_in, self.dim, ffi))
    IN  [rotary |-> q1.err = "",      \* get_rotary_embedding was called
         masked |-> sim.err = "",     \* get_mask was called
         k |-> IF k2.err = "" THEN <<k2.shape>> ELSE <<>>,
         v |-> IF k2.err = "" THEN <<v>> ELSE <<>>,
         q |-> IF k2.err = "" THEN <<q2.shape>> ELSE <<>>,
         val |-> Bind(ffo, LAMBDA s : Broadcast(attn.shape, s))]

----------------------------------------------------------------------------
(* Transformer *)

Block(kind, obj) == [kind |-> kind, obj |-> obj]

\* nn.ModuleList.append(self, module) takes exactly one module.
ModuleListAppend(layers, args) ==
    IF Len(args) = 1
    THEN [err |-> "", layers |-> Append(layers, args[1])]
    ELSE [err |-> "TypeError", layers |-> layers]

\* The loop of Transformer.__init__ with `left` iterations to go.
RECURSIVE TransformerLayers(_, _, _, _, _, _, _)
TransformerLayers(layers, left, dim, heads, dim_head, ff_mult, dropout) ==
    IF left = 0 THEN [err |-> "", layers |-> layers]
    ELSE LET r == ModuleListAppend(layers,
                      <<Block("FeedForward", FeedForward(dim, dim, dropout)),
                        Block("ParallelTransformerBlock",
                              ParallelTransformerBlockInit(dim, dim_head, heads, ff_mult))>>)
         IN  IF r.err # "" THEN r
             ELSE TransformerLayers(r.layers, left - 1, dim, heads, dim_head,
                                    ff_mult, dropout)

\* Transformer.__init__: the error it raises, if any, and self.layers.
TransformerInit(dim, depth, heads, dim_head, ff_mult, dropout) ==
    TransformerLayers(<<>>, depth, dim, heads, dim_head, ff_mult, dropout)

\* block(x) for a member of self.layers
CallBlock(block, x) ==
    IF block.kind = "FeedForward" THEN FeedForwardForward(block.obj, x)
    ELSE IF Len(x) < 2 THEN Raise("IndexError")
    ELSE ParallelTransformerBlockForward(block.obj, x,
             <<x[2], 2 * Len(InvFreq(block.obj.dim_head))>>, <<x[2], x[2]>>).val

\* Transformer.forward from block i on: x = block(x) + x for each block in order.
\* applied lists the blocks called so far.
RECURSIVE TransformerForward(_, _, _, _)
TransformerForward(layers, i, r, applied) ==
    IF i > Len(layers) \/ r.err # "" THEN [val |-> r, applied |-> applied]
    ELSE LET y == CallBlock(layers[i], r.shape)
         IN  TransformerForward(layers, i + 1,
                                Bind(y, LAMBDA s : Broadcast(s, r.shape)),
                                Append(applied, i))

----------------------------------------------------------------------------
(* Inputs *)

Seqs == 1..MaxSeq

\* Input shapes (b, d) and (b, n, d) with d in D.
Inputs(D) == {<<b, d>> : b \in Batches, d \in D}
             \cup {<<b, n, d>> : b \in Batches, n \in Seqs, d \in D}

\* The shape of the input of the module-level example, torch.randn(1, 1024, 512).
ExampleInput == <<1, 1024, 512>>

----------------------------------------------------------------------------
(* FeedForward: construction and forward *)

NewFeedForward ==
    /\ \E a \in Dims, b \in HiddenDims \cup Dims, c \in Dropouts \cup {DefaultMult} :
          /\ ff' = <<FeedForward(a, b, c)>>
          /\ ffArgs' = <<a, b, c>>
    /\ ffOut' = <<>>
    /\ UNCHANGED <<alrVars, trVars, ptbVars>>

\* A call that passes its arguments by keyword.
NewFeedForwardKw ==
    /\ \E dim \in {4}, dim_out \in {0, 8}, mult \in {DefaultMult},
          glu \in BOOLEAN, swish \in BOOLEAN, relu_squared \in BOOLEAN,
          post_act_ln \in BOOLEAN, dropout \in {0, 1} :
          ff' = <<FeedForwardInit(dim, dim_out, mult, glu, swish, relu_squared,
                                  post_act_ln, dropout)>>
    /\ ffArgs' = <<>>
    /\ ffOut' = <<>>
    /\ UNCHANGED <<alrVars, trVars, ptbVars>>

CallFeedForward ==
    /\ ff # <<>>
    /\ \E x \in Inputs(Dims) :
          ffOut' = <<[x |-> x, val |-> FeedForwardForward(ff[1], x)]>>
    /\ UNCHANGED <<ff, ffArgs, alrVars, trVars, ptbVars>>

InitModules ==
    /\ ff = <<>> /\ ffArgs = <<>> /\ ffOut = <<>>
    /\ alr = <<>> /\ alrIn = <<>> /\ alrOut = <<>>
    /\ tr = <<>> /\ trOut = <<>>
    /\ ptb = <<>> /\ dev = "cpu" /\ mask = <<>> /\ pos_emb = <<>> /\ ret = <<>>

NextFF == NewFeedForward \/ NewFeedForwardKw \/ CallFeedForward

SpecFF == InitModules /\ [][NextFF]_vars

----------------------------------------------------------------------------
(* ALRBlock: construction and forward *)

NewALRBlock ==
    /\ \E dim \in Dims, hidden_dim \in HiddenDims \cup Dims, dropout \in Dropouts :
          alr' = <<ALRBlockInit(dim, hidden_dim, dropout)>>
    /\ alrIn' = <<>>
    /\ alrOut' = <<>>
    /\ UNCHANGED <<ffVars, trVars, ptbVars>>

CallALRBlock ==
    /\ alr # <<>>
    /\ \E x \in Inputs(Dims) \cup {ExampleInput} :
          /\ alrIn' = x
          /\ alrOut' = <<ALRBlockForward(alr[1], x)>>
    /\ UNCHANGED <<alr, ffVars, trVars, ptbVars>>

NextALR == NewALRBlock \/ CallALRBlock

SpecALR == InitModules /\ [][NextALR]_vars

----------------------------------------------------------------------------
(* Transformer: construction and forward *)

Depths == 0..MaxDepth
DimHeads == 1..MaxDimHead

NewTransformer ==
    /\ \E dim \in {2, 4}, depth \in Depths, heads \in HeadCounts, dim_head \in DimHeads,
          ff_mult \in FfMults, dropout \in Dropouts :
          tr' = <<[dim |-> dim, depth |-> depth, heads |-> heads,
                   dim_head |-> dim_head, ff_mult |-> ff_mult, dropout |-> dropout,
                   init |-> TransformerInit(dim, depth, heads, dim_head, ff_mult,
                                            dropout)]>>
    /\ trOut' = <<>>
    /\ UNCHANGED <<ffVars, alrVars, ptbVars>>

\* forward can be called only on an object whose constructor returned.
CallTransformer ==
    /\ tr # <<>>
    /\ tr[1].init.err = ""
    /\ \E x \in Inputs({2, 4}) :
          trOut' = <<[x |-> x] @@ TransformerForward(tr[1].init.layers, 1, Ok(x), <<>>)>>
    /\ UNCHANGED <<tr, ffVars, alrVars, ptbVars>>

NextTR == NewTransformer \/ CallTransformer

SpecTR == InitModules /\ [][NextTR]_vars

----------------------------------------------------------------------------
(* ParallelTransformerBlock: the cached getters and forward *)

PtbDims == {1, 2}
PtbFfMults == {4}
PtbWidths == {1, 2}

\* What a call leaves in ret.  val is what the call returned; for forward, p and m
\* hold the rotary table and the mask it was given by the getters, and q, k, v the
\* shapes of its locals after the rotary embedding.
Call(op, n, device, x, val, p, m, q, k, v) ==
    [op |-> op, n |-> n, device |-> device, x |-> x, val |-> val,
     p |-> p, m |-> m, q |-> q, k |-> k, v |-> v]

CallGetMask ==
    /\ \E n \in 0..MaxSeq, device \in {dev} :
          LET r == GetMask(mask, n, device)
          IN  /\ mask' = r.buf
              /\ ret' = <<Call("get_mask", n, device, <<>>, r.val,
                               <<>>, <<r.val>>, <<>>, <<>>, <<>>)>>
    /\ UNCHANGED <<ptb, dev, pos_emb, ffVars, alrVars, trVars>>

CallGetRotaryEmbedding ==
    /\ \E n \in 0..MaxSeq, device \in {dev} :
          LET r == GetRotaryEmbedding(ptb[1], pos_emb, n, device)
          IN  /\ pos_emb' = r.buf
              /\ ret' = <<Call("get_rotary_embedding", n, device, <<>>, r.val,
                               <<r.val>>, <<>>, <<>>, <<>>, <<>>)>>
    /\ UNCHANGED <<ptb, dev, mask, ffVars, alrVars, trVars>>

\* forward asks get_rotary_embedding and then get_mask for n = x.shape[1]; a getter
\* the method does not reach, because an earlier line raised, leaves its buffer alone.
CallForward ==
    /\ \E x \in Inputs(PtbWidths), device \in {dev} :
          LET n == x[2]
              rot == GetRotaryEmbedding(ptb[1], pos_emb, n, device)
              msk == GetMask(mask, n, device)
              f == ParallelTransformerBlockForward(ptb[1], x, rot.val.shape,
                                                   msk.val.shape)
          IN  /\ pos_emb' = IF f.rotary THEN rot.buf ELSE pos_emb
              /\ mask' = IF f.masked THEN msk.buf ELSE mask
              /\ ret' = <<Call("forward", n, device, x, f.val,
                               IF f.rotary THEN <<rot.val>> ELSE <<>>,
                               IF f.masked THEN <<msk.val>> ELSE <<>>,
                               f.q, f.k, f.v)>>
    /\ UNCHANGED <<ptb, dev, ffVars, alrVars, trVars>>

InitPTB ==
    /\ ff = <<>> /\ ffArgs = <<>> /\ ffOut = <<>>
    /\ alr = <<>> /\ alrIn = <<>> /\ alrOut = <<>>
    /\ tr = <<>> /\ trOut = <<>>
    /\ \E dim \in PtbDims, dim_head \in DimHeads, heads \in HeadCounts, ff_mult \in PtbFfMults :
          ptb = <<ParallelTransformerBlockInit(dim, dim_head, heads, ff_mult)>>
    /\ dev \in Devices
    /\ mask = <<>> /\ pos_emb = <<>> /\ ret = <<>>

NextPTB == CallGetMask \/ CallGetRotaryEmbedding \/ CallForward

SpecPTB == InitPTB /\ [][NextPTB]_vars

----------------------------------------------------------------------------
(* Claims *)

\* C1 (as claimed): ALRBlock.forward on an input of shape (b, n, dim) raises no
\* shape mismatch and returns a tensor of shape (b, n, dim).
C1_ALRBlockKeepsShape ==
    (alrOut # <<>> /\ Len(alrIn) = 3 /\ alrIn[3] = alr[1].dim)
        => alrOut[1] = Ok(alrIn)

\* C2 (as claimed): Transformer(dim, depth=N, ...) is constructed for every N >= 0
\* with the blocks of N layers (a FeedForward and a ParallelTransformerBlock each)
\* in self.layers, and forward applies x <- block(x) + x once per block in
\* construction order, returning x unchanged when N = 0.
C2_TransformerDepthN ==
    /\ tr # <<>> => /\ tr[1].init.err = ""
                    /\ Len(tr[1].init.layers) = 2 * tr[1].depth
    /\ trOut # <<>> => /\ trOut[1].applied = [i \in 1..Len(tr[1].init.layers) |-> i]
                       /\ tr[1].depth = 0 => trOut[1].val = Ok(trOut[1].x)

\* C3 (as claimed): the call FeedForward(a, b, c) builds a network whose hidden
\* (inner) width is b and whose Dropout layer has probability c.
C3_FeedForwardArgs ==
    (ff # <<>> /\ ffArgs # <<>>)
        => /\ ff[1].inner_dim = ffArgs[2]
           /\ DropoutOf(ff[1]) = ffArgs[3]

\* C4: whatever calls came before, the mask get_mask(n, device) returns (to a
\* caller, or to forward) is the n x n matrix whose entry (i, j) is True exactly
\* when j > i.
C4_CausalMask ==
    (ret # <<>> /\ ret[1].m # <<>>)
        => LET m == ret[1].m[1]
               n == ret[1].n
           IN  /\ m.shape = <<n, n>>
               /\ Len(m.data) = n
               /\ \A i \in 1..n :
                     /\ Len(m.data[i]) = n
                     /\ \A j \in 1..n : m.data[i][j] = (j > i)

\* C4 witness: get_mask answered from a cached mask larger than the one asked for.
C4_Witness ==
    /\ ret # <<>> /\ ret[1].op = "get_mask" /\ ret[1].n >= 2
    /\ mask # <<>> /\ mask[1].shape[1] > ret[1].n

\* C5: whatever calls came before, get_rotary_embedding(n, device) returns
\* exactly n rows, row p being position p times inv_freq concatenated with
\* itself, which is what RotaryEmbedding.forward(n) computes.
C5_RotaryCacheTransparent ==
    (ret # <<>> /\ ret[1].p # <<>>)
        => LET t == ret[1].p[1]
               n == ret[1].n
               inv_freq == InvFreq(ptb[1].dim_head)
               fresh == RotaryEmbeddingForward(ptb[1].dim_head, n, dev)
           IN  /\ Len(t.data) = n
               /\ \A i \in 1..n :
                     LET f == [j \in 1..Len(inv_freq) |-> Times(i - 1, inv_freq[j])]
                     IN  t.data[i] = f \o f
               /\ t.shape = fresh.shape
               /\ t.data = fresh.data

\* C5 witness: get_rotary_embedding answered from a cached table longer than asked.
C5_Witness ==
    /\ ret # <<>> /\ ret[1].op = "get_rotary_embedding" /\ ret[1].n >= 2
    /\ pos_emb # <<>> /\ pos_emb[1].shape[1] > ret[1].n

\* The widths of the fused projection: its output is as wide as the four pieces
\* it is split into, heads * dim_head for q, dim_head for k, dim_head for v and
\* dim * ff_mult for the feed-forward branch.
FusedWidths(b) ==
    /\ b.fused_dims = <<b.heads * b.dim_head, b.dim_head, b.dim_head, b.dim * b.ff_mult>>
    /\ b.fused_out = b.heads * b.dim_head + b.dim_head + b.dim_head + b.dim * b.ff_mult

\* forward returned a tensor of its input's shape, having used `heads` query heads
\* and one dim_head-wide key / value head.
MultiQueryShapes(b, c) ==
    /\ c.val = Ok(c.x)
    /\ c.q = << <<c.x[1], b.heads, c.x[2], b.dim_head>> >>
    /\ c.k = << <<c.x[1], c.x[2], b.dim_head>> >>
    /\ c.v = << <<c.x[1], c.x[2], b.dim_head>> >>

\* forward was called with an input of shape (b, n, dim).
ForwardOnDimInput ==
    /\ ret # <<>> /\ ret[1].op = "forward"
    /\ Len(ret[1].x) = 3 /\ ret[1].x[3] = ptb[1].dim

\* C6 (as claimed): the fused widths add up, and for any input of shape (b, n, dim)
\* forward returns shape (b, n, dim) with k and v a single shared head.
C6_MultiQueryAnyBlock ==
    /\ FusedWidths(ptb[1])
    /\ ForwardOnDimInput => MultiQueryShapes(ptb[1], ret[1])

\* C6 (amended): the same, for a block whose dim_head is even.
C6_MultiQueryEvenDimHead ==
    /\ FusedWidths(ptb[1])
    /\ (ForwardOnDimInput /\ ptb[1].dim_head % 2 = 0)
          => MultiQueryShapes(ptb[1], ret[1])

\* C6 witness: forward returned on a block with several query heads.
C6_Witness ==
    /\ ForwardOnDimInput
    /\ ptb[1].heads >= 2 /\ ptb[1].dim_head % 2 = 0
    /\ ret[1].val.err = "" /\ ret[1].n >= 2

====
